---- MODULE Spec2Model ----
(***************************************************************************)
(* recon/nmap.py: the luigi tasks ThreadedNmap (fan-out of nmap commands   *)
(* over a thread pool) and Searchsploit (one searchsploit run per          *)
(* nmap*.xml file, stderr persisted to a per-target file).                 *)
(*                                                                         *)
(* Python strings are sequences of one-character strings, so that join,    *)
(* replace, stem and slicing are computed character by character.          *)
(***************************************************************************)
EXTENDS Integers, Sequences, FiniteSets, TLC

\* ------------------------------------------------------------------ bounds
\* largest worker count supplied to --threads
MaxThreads == 2
\* largest number of (host, protocol) pairs in a dictionary of IpDicts
MaxPairs == 2
\* largest number of (host, protocol) pairs in a dictionary of ScanDicts
MaxScans == 3
\* largest number of files in the nmap results directory
MaxFiles == 3

\* ------------------------------------------------------- string helpers
RECURSIVE Flatten(_)
\* concatenation of a sequence of strings (an f-string's pieces)
Flatten(ss) == IF ss = <<>> THEN <<>> ELSE Head(ss) \o Flatten(Tail(ss))

RECURSIVE Join(_, _)
\* sep.join(items), items already in iteration order
Join(sep, items) ==
    IF items = <<>> THEN <<>>
    ELSE IF Len(items) = 1 THEN items[1]
    ELSE items[1] \o sep \o Join(sep, Tail(items))

\* all orders in which a set can be iterated
Orderings(S) ==
    {f \in [1..Cardinality(S) -> S] : \A i, j \in 1..Cardinality(S) : f[i] = f[j] => i = j}

\* ------------------------------------------------------------- the inputs
s_tcp == <<"t", "c", "p">>
s_udp == <<"u", "d", "p">>
s_sctp == <<"s", "c", "t", "p">>

\* hosts of the pickled dictionary (IPs or domains)
Hosts == {<<"a">>, <<"1", ".", "2">>}
\* protocol keys; sctp stands for any value that is neither tcp nor udp
Protocols == {s_tcp, s_udp, s_sctp}
\* port sets found open for a (host, protocol) pair
PortSets == {{<<"8", "0">>}, {<<"2", "2">>, <<"8", "0">>}}
\* candidate values of recon.config.web_ports
WebPortSets == {{}, {<<"8", "0">>}}

\* --target-file
target_file == <<"t">>

\* values of --threads: an int, a string of digits, any other string, None
ThreadsParams ==
    {[kind |-> "int", val |-> n] : n \in (0 - 1)..MaxThreads}
    \cup {[kind |-> "digits", val |-> MaxThreads],
          [kind |-> "text", val |-> 0],
          [kind |-> "none", val |-> 0]}

\* dictionaries {host: {protocol: set(ports)}} with at most MaxPairs pairs
PairCount(d) ==
    LET RECURSIVE Sum(_)
        Sum(H) == IF H = {} THEN 0
                  ELSE LET h == CHOOSE x \in H : TRUE
                       IN Cardinality(DOMAIN d[h]) + Sum(H \ {h})
    IN Sum(DOMAIN d)

ProtocolDicts ==
    UNION {[P -> PortSets] : P \in (SUBSET Protocols) \ {{}}}

IpDicts ==
    {d \in UNION {[H -> ProtocolDicts] : H \in SUBSET Hosts} : PairCount(d) <= MaxPairs}

\* dictionaries over tcp and udp whose pairs all found 22 and 80, with at most
\* MaxScans pairs
ScanDicts ==
    LET found == {{<<"2", "2">>, <<"8", "0">>}}
        dicts == UNION {[P -> found] : P \in (SUBSET {s_tcp, s_udp}) \ {{}}}
    IN {d \in UNION {[H -> dicts] : H \in SUBSET Hosts} : PairCount(d) <= MaxScans}

\* ------------------------------------------------------------------ state
VARIABLES
    threads,        \* self.threads: as supplied, then abs(int(...)) of it
    ip_dict,        \* the unpickled dictionary
    web_ports,      \* recon.config.web_ports
    pc,             \* position of ThreadedNmap.run
    logged,         \* logging.error was called
    todo,           \* hosts the outer loop has not visited
    cur,            \* host of the outer loop
    ptodo,          \* protocols of cur the inner loop has not visited
    commands,       \* the list of nmap commands
    status,         \* per command: new, queued, running, ok, nonzero, exception
    nmapDirExists,  \* the directory of ThreadedNmap.output() exists
    ssPc,           \* position of Searchsploit.run
    dirFiles,       \* file names in the nmap results directory
    ssTodo,         \* globbed entries not yet visited
    ssEntry,        \* entry of the loop
    ssStderr,       \* proc.stderr of the current entry
    captured,       \* entry -> stderr captured for it (history)
    ssDirExists,    \* the directory of Searchsploit.output() exists
    ssFiles         \* files of that directory: name -> content

nmapVars == <<threads, ip_dict, web_ports, pc, logged, todo, cur,
              ptodo, commands, status, nmapDirExists>>
ssVars == <<ssPc, dirFiles, ssTodo, ssEntry, ssStderr, captured, ssDirExists, ssFiles>>
vars == <<nmapVars, ssVars>>

NoHost == <<>>

\* ------------------------------------------------ ThreadedNmap: functions
\* int(x): the exception raised, or the value
IntOf(p) ==
    CASE p.kind = "int" -> [exc |-> "none", val |-> p.val]
      [] p.kind = "digits" -> [exc |-> "none", val |-> p.val]
      [] p.kind = "text" -> [exc |-> "ValueError", val |-> 0]
      [] p.kind = "none" -> [exc |-> "TypeError", val |-> 0]

Abs(n) == IF n < 0 THEN 0 - n ELSE n

\* the except clause of run
Caught(exc) == exc = "TypeError"

\* ThreadedNmap.output().path
NmapOutputPath == target_file \o <<"-", "n", "m", "a", "p", "-", "r", "e", "s", "u", "l", "t", "s">>

\* the template list; "PLACEHOLDER-IDX-2" "-n" is one literal
nmap_command ==
    << <<"n", "m", "a", "p">>,
       <<"-", "-", "o", "p", "e", "n">>,
       <<"P", "L", "A", "C", "E", "H", "O", "L", "D", "E", "R", "-", "I", "D", "X", "-", "2", "-", "n">>,
       <<"-", "s", "C">>,
       <<"-", "T">>,
       <<"4">>,
       <<"-", "s", "V">>,
       <<"-", "P", "n">>,
       <<"-", "p">>,
       <<"P", "L", "A", "C", "E", "H", "O", "L", "D", "E", "R", "-", "I", "D", "X", "-", "1", "0">>,
       <<"-", "o", "A">> >>

\* ports.difference(web_ports)
NonWebPorts(ports, web) == ports \ web

ScanFlagAlwaysTcp(protocol) == <<"-", "s", "T">>

\* "-sT" if protocol == "tcp" else "-sU"
ScanFlag(protocol) == IF protocol = s_tcp THEN <<"-", "s", "T">> ELSE <<"-", "s", "U">>

\* f"{self.output().path}/nmap.{target}-{protocol}"
OutputPrefix(target, protocol) ==
    Flatten(<<NmapOutputPath, <<"/", "n", "m", "a", "p", ".">>, target, <<"-">>, protocol>>)

\* tmp_cmd of one loop iteration (list indices are 0-based in the source)
TmpCmd(target, protocol, non_web_ports) ==
    Append(Append([nmap_command EXCEPT ![3] = ScanFlag(protocol), ![10] = non_web_ports],
                  OutputPrefix(target, protocol)), target)

MaxWorkersPerCommand(t) == t + 1

\* ThreadPoolExecutor(max_workers=self.threads)
MaxWorkers(t) == t

Finished == {"ok", "nonzero", "exception"}

JoinOutcomeChecked(st) ==
    IF \E i \in DOMAIN st : st[i] = "exception" THEN "raised" ELSE "done"

\* leaving the with block: shutdown(wait=True); the iterator that
\* executor.map returned is never consumed, so no result is looked at
JoinOutcome(st) == "done"

Running == {i \in DOMAIN status : status[i] = "running"}

\* ------------------------------------------------- ThreadedNmap: actions
\* ThreadedNmap.run is about to start, for every --threads value and the
\* dictionaries of ScanDicts; Searchsploit has not been scheduled
Init ==
    /\ threads \in ThreadsParams
    /\ ip_dict \in ScanDicts
    /\ web_ports = {<<"8", "0">>}
    /\ pc = "convert"
    /\ logged = FALSE
    /\ todo = DOMAIN ip_dict
    /\ cur = NoHost
    /\ ptodo = {}
    /\ commands = <<>>
    /\ status = <<>>
    /\ nmapDirExists = FALSE
    /\ ssPc = "idle"
    /\ dirFiles = {}
    /\ ssTodo = {}
    /\ ssEntry = <<>>
    /\ ssStderr = <<>>
    /\ captured = <<>>
    /\ ssDirExists = FALSE
    /\ ssFiles = <<>>

\* self.threads = abs(int(self.threads)), the except clause, the pickle load
ConvertThreads ==
    /\ pc = "convert"
    /\ LET r == IntOf(threads)
       IN IF r.exc = "none"
          THEN /\ threads' = [kind |-> "int", val |-> Abs(r.val)]
               /\ pc' = "build"
               /\ UNCHANGED logged
          ELSE IF Caught(r.exc)
          THEN /\ logged' = TRUE
               /\ pc' = "returned"
               /\ UNCHANGED threads
          ELSE /\ pc' = "raised"
               /\ UNCHANGED <<threads, logged>>
    /\ UNCHANGED <<ip_dict, web_ports, todo, cur, ptodo, commands, status,
                   nmapDirExists, ssVars>>

\* for target, protocol_dict in ip_dict.items()
BuildNextHost ==
    /\ pc = "build"
    /\ ptodo = {}
    /\ \E h \in todo :
        /\ cur' = h
        /\ ptodo' = DOMAIN ip_dict[h]
        /\ todo' = todo \ {h}
    /\ UNCHANGED <<threads, ip_dict, web_ports, pc, logged, commands,
                   status, nmapDirExists, ssVars>>

\* one iteration of: for protocol, ports in protocol_dict.items()
BuildPair ==
    /\ pc = "build"
    /\ \E protocol \in ptodo :
        \E order \in Orderings(NonWebPorts(ip_dict[cur][protocol], web_ports)) :
            LET non_web_ports == Join(<<",">>, order)
            IN /\ ptodo' = ptodo \ {protocol}
               /\ IF non_web_ports = <<>>
                  THEN UNCHANGED <<commands, status>>
                  ELSE /\ commands' = Append(commands, TmpCmd(cur, protocol, non_web_ports))
                       /\ status' = Append(status, "new")
    /\ UNCHANGED <<threads, ip_dict, web_ports, pc, logged, todo, cur,
                   nmapDirExists, ssVars>>

MkdirForgotten ==
    /\ pc = "build"
    /\ todo = {}
    /\ ptodo = {}
    /\ pc' = "pool"
    /\ UNCHANGED <<threads, ip_dict, web_ports, logged, todo, cur, ptodo,
                   commands, status, nmapDirExists, ssVars>>

\* Path(self.output().path).mkdir(parents=True, exist_ok=True), after the loops
Mkdir ==
    /\ pc = "build"
    /\ todo = {}
    /\ ptodo = {}
    /\ nmapDirExists' = TRUE
    /\ pc' = "pool"
    /\ UNCHANGED <<threads, ip_dict, web_ports, logged, todo, cur, ptodo,
                   commands, status, ssVars>>

\* ThreadPoolExecutor(max_workers=self.threads): ValueError unless > 0
CreatePool ==
    /\ pc = "pool"
    /\ pc' = IF MaxWorkers(threads.val) <= 0 THEN "raised"
             ELSE IF commands = <<>> THEN "join" ELSE "map"
    /\ UNCHANGED <<threads, ip_dict, web_ports, logged, todo, cur, ptodo,
                   commands, status, nmapDirExists, ssVars>>

\* executor.map submits the commands in list order
Submit ==
    /\ pc = "map"
    /\ \E i \in DOMAIN status :
        /\ status[i] = "new"
        /\ \A j \in 1..(i-1) : status[j] # "new"
        /\ status' = [status EXCEPT ![i] = "queued"]
        /\ pc' = IF i = Len(status) THEN "join" ELSE "map"
    /\ UNCHANGED <<threads, ip_dict, web_ports, logged, todo, cur, ptodo,
                   commands, nmapDirExists, ssVars>>

\* a worker thread takes the oldest queued command and calls subprocess.run
WorkerStart ==
    /\ pc \in {"map", "join"}
    /\ Cardinality(Running) < MaxWorkers(threads.val)
    /\ \E i \in DOMAIN status :
        /\ status[i] = "queued"
        /\ \A j \in 1..(i-1) : status[j] # "queued"
        /\ status' = [status EXCEPT ![i] = "running"]
    /\ UNCHANGED <<threads, ip_dict, web_ports, pc, logged, todo, cur,
                   ptodo, commands, nmapDirExists, ssVars>>

\* subprocess.run returns (exit status zero or not) or raises in the worker
WorkerFinish ==
    /\ pc \in {"map", "join"}
    /\ \E i \in Running : \E outcome \in Finished :
        status' = [status EXCEPT ![i] = outcome]
    /\ UNCHANGED <<threads, ip_dict, web_ports, pc, logged, todo, cur,
                   ptodo, commands, nmapDirExists, ssVars>>

\* end of the with block: waits for every submitted command
PoolJoin ==
    /\ pc = "join"
    /\ \A i \in DOMAIN status : status[i] \in Finished
    /\ pc' = JoinOutcome(status)
    /\ UNCHANGED <<threads, ip_dict, web_ports, logged, todo, cur, ptodo,
                   commands, status, nmapDirExists, ssVars>>

Next ==
    \/ ConvertThreads
    \/ BuildNextHost
    \/ BuildPair
    \/ Mkdir
    \/ CreatePool
    \/ Submit
    \/ WorkerStart
    \/ WorkerFinish
    \/ PoolJoin

Spec == Init /\ [][Next]_vars

\* ThreadedNmap.run with one worker, for every dictionary and web port set
InitCommands ==
    /\ threads = [kind |-> "int", val |-> 1]
    /\ ip_dict \in IpDicts
    /\ web_ports \in WebPortSets
    /\ pc = "convert"
    /\ logged = FALSE
    /\ todo = DOMAIN ip_dict
    /\ cur = NoHost
    /\ ptodo = {}
    /\ commands = <<>>
    /\ status = <<>>
    /\ nmapDirExists = FALSE
    /\ ssPc = "idle"
    /\ dirFiles = {}
    /\ ssTodo = {}
    /\ ssEntry = <<>>
    /\ ssStderr = <<>>
    /\ captured = <<>>
    /\ ssDirExists = FALSE
    /\ ssFiles = <<>>

SpecCommands == InitCommands /\ [][Next]_vars

FairSpec == Spec /\ WF_vars(Next)

\* ------------------------------------------------- Searchsploit: inputs
\* hosts whose scan results lie in the nmap results directory
SsHosts == {<<"a">>, <<"b">>, <<"n", "m", "a", "p", ".", "a">>}
\* protocols of those scans
SsProtocols == {s_tcp, s_udp}

\* the .xml file nmap writes for -oA .../nmap.{host}-{protocol}
XmlName(host, protocol) ==
    Flatten(<< <<"n", "m", "a", "p", ".">>, host, <<"-">>, protocol, <<".", "x", "m", "l">> >>)

\* the .gnmap file of the same prefix
GnmapName(host, protocol) ==
    Flatten(<< <<"n", "m", "a", "p", ".">>, host, <<"-">>, protocol,
               <<".", "g", "n", "m", "a", "p">> >>)

\* names that may lie in the nmap results directory
DirNames ==
    {XmlName(h, p) : h \in SsHosts, p \in SsProtocols} \cup {GnmapName(<<"a">>, s_tcp)}

\* what searchsploit may print on stderr
StderrValues == {<<>>, <<"x">>, <<"y">>}

\* ------------------------------------------------ Searchsploit: functions
StartsWith(s, pre) == Len(s) >= Len(pre) /\ SubSeq(s, 1, Len(pre)) = pre

EndsWith(s, suf) == Len(s) >= Len(suf) /\ SubSeq(s, Len(s) - Len(suf) + 1, Len(s)) = suf

\* Path.glob("nmap*.xml") on one name
GlobMatch(name) ==
    /\ Len(name) >= 8
    /\ StartsWith(name, <<"n", "m", "a", "p">>)
    /\ EndsWith(name, <<".", "x", "m", "l">>)

\* Path.stem: the name without its last suffix
Stem(name) ==
    LET dots == {i \in 1..Len(name) : name[i] = "."}
    IN IF dots = {} THEN name
       ELSE LET k == CHOOSE i \in dots : \A j \in dots : j <= i
            IN IF k = 1 \/ k = Len(name) THEN name ELSE SubSeq(name, 1, k - 1)

RECURSIVE Replace(_, _, _)
\* s.replace(old, new): every non-overlapping occurrence, left to right
Replace(s, old, new) ==
    IF Len(s) < Len(old) THEN s
    ELSE IF SubSeq(s, 1, Len(old)) = old
    THEN new \o Replace(SubSeq(s, Len(old) + 1, Len(s)), old, new)
    ELSE <<Head(s)>> \o Replace(Tail(s), old, new)

\* s[-3:]
LastThree(s) == IF Len(s) <= 3 THEN s ELSE SubSeq(s, Len(s) - 2, Len(s))

\* entry.stem.replace("nmap.", "").replace("-tcp", "").replace("-udp", "")
Target(stem) ==
    Replace(Replace(Replace(stem, <<"n", "m", "a", "p", ".">>, <<>>),
                    <<"-", "t", "c", "p">>, <<>>),
            <<"-", "u", "d", "p">>, <<>>)

\* the name written below Searchsploit.output().path for an entry
ResultName(name) ==
    Flatten(<< <<"s", "e", "a", "r", "c", "h", "s", "p", "l", "o", "i", "t", ".">>,
               Target(Stem(name)), <<"-">>, LastThree(Stem(name)), <<".", "t", "x", "t">> >>)

\* Path.write_bytes: the file is created or replaced
WriteFile(files, name, content) ==
    [n \in (DOMAIN files) \cup {name} |-> IF n = name THEN content ELSE files[n]]

\* -------------------------------------------------- Searchsploit: actions
\* ThreadedNmap has completed; the nmap results directory holds dirFiles
InitSearchsploit ==
    /\ threads = [kind |-> "int", val |-> 1]
    /\ ip_dict = <<>>
    /\ web_ports = {}
    /\ pc = "done"
    /\ logged = FALSE
    /\ todo = {}
    /\ cur = NoHost
    /\ ptodo = {}
    /\ commands = <<>>
    /\ status = <<>>
    /\ nmapDirExists = TRUE
    /\ ssPc = "glob"
    /\ dirFiles \in {F \in SUBSET DirNames : Cardinality(F) <= MaxFiles}
    /\ ssTodo = {}
    /\ ssEntry = <<>>
    /\ ssStderr = <<>>
    /\ captured = <<>>
    /\ ssDirExists = FALSE
    /\ ssFiles = <<>>

SsGlobMkdirFirst ==
    /\ ssPc = "glob"
    /\ ssTodo' = {f \in dirFiles : GlobMatch(f)}
    /\ ssDirExists' = TRUE
    /\ ssPc' = "loop"
    /\ UNCHANGED <<nmapVars, dirFiles, ssEntry, ssStderr, captured, ssFiles>>

\* Path(self.input().path).glob("nmap*.xml")
SsGlob ==
    /\ ssPc = "glob"
    /\ ssTodo' = {f \in dirFiles : GlobMatch(f)}
    /\ ssPc' = "loop"
    /\ UNCHANGED <<nmapVars, dirFiles, ssEntry, ssStderr, captured, ssDirExists, ssFiles>>

\* next entry: subprocess.run(["searchsploit", "--nmap", entry], stderr=PIPE)
\* and the test of proc.stderr
SsRun ==
    /\ ssPc = "loop"
    /\ \E entry \in ssTodo : \E err \in StderrValues :
        /\ ssTodo' = ssTodo \ {entry}
        /\ ssEntry' = entry
        /\ ssStderr' = err
        /\ captured' = WriteFile(captured, entry, err)
        /\ ssPc' = IF err # <<>> THEN "mkdir" ELSE "loop"
    /\ UNCHANGED <<nmapVars, dirFiles, ssDirExists, ssFiles>>

\* Path(self.output().path).mkdir(parents=True, exist_ok=True)
SsMkdir ==
    /\ ssPc = "mkdir"
    /\ ssDirExists' = TRUE
    /\ ssPc' = "write"
    /\ UNCHANGED <<nmapVars, dirFiles, ssTodo, ssEntry, ssStderr, captured, ssFiles>>

\* Path(f"{...}/searchsploit.{target}-{entry.stem[-3:]}.txt").write_bytes(proc.stderr)
SsWrite ==
    /\ ssPc = "write"
    /\ ssFiles' = WriteFile(ssFiles, ResultName(ssEntry), ssStderr)
    /\ ssPc' = "loop"
    /\ UNCHANGED <<nmapVars, dirFiles, ssTodo, ssEntry, ssStderr, captured, ssDirExists>>

\* the glob is exhausted: run returns
SsReturn ==
    /\ ssPc = "loop"
    /\ ssTodo = {}
    /\ ssPc' = "done"
    /\ UNCHANGED <<nmapVars, dirFiles, ssTodo, ssEntry, ssStderr, captured, ssDirExists,
                   ssFiles>>

NextSs ==
    \/ SsGlob
    \/ SsRun
    \/ SsMkdir
    \/ SsWrite
    \/ SsReturn

SpecSearchsploit == InitSearchsploit /\ [][NextSs]_vars

\* ----------------------------------------------------------------- claims
Terminated == pc \in {"done", "returned", "raised"}

AllFinished == \A i \in DOMAIN status : status[i] \in Finished

Started == {i \in DOMAIN status : status[i] \in Finished \cup {"running"}}

\* the inner loop has passed the pair (h, p)
Visited(h, p) == h \notin todo /\ (h = cur => p \notin ptodo)

\* the -oA argument the claim names, "t-nmap-results/nmap.{h}-{p}"
ExpectedPrefix(h, p) ==
    <<"t", "-", "n", "m", "a", "p", "-", "r", "e", "s", "u", "l", "t", "s", "/",
      "n", "m", "a", "p", ".">> \o h \o <<"-">> \o p

RECURSIVE Split(_, _)
\* s.split(c) for a one-character separator c
Split(s, c) ==
    IF \A i \in 1..Len(s) : s[i] # c THEN <<s>>
    ELSE LET k == CHOOSE i \in 1..Len(s) : s[i] = c /\ \A j \in 1..(i-1) : s[j] # c
         IN <<SubSeq(s, 1, k-1)>> \o Split(SubSeq(s, k+1, Len(s)), c)

Range(f) == {f[i] : i \in DOMAIN f}

CommandsOf(h, p) ==
    {i \in DOMAIN commands :
        commands[i][Len(commands[i])] = h /\ commands[i][Len(commands[i]) - 1] = ExpectedPrefix(h, p)}

CommandShape(c, h, p) ==
    LET listed == Split(c[10], ",")
    IN /\ Len(c) = 13
       /\ c[1] = <<"n", "m", "a", "p">>
       /\ c[3] = IF p = <<"t", "c", "p">> THEN <<"-", "s", "T">> ELSE <<"-", "s", "U">>
       /\ c[9] = <<"-", "p">>
       /\ Range(listed) = ip_dict[h][p] \ web_ports
       /\ Len(listed) = Cardinality(ip_dict[h][p] \ web_ports)
       /\ c[11] = <<"-", "o", "A">>
       /\ c[12] = ExpectedPrefix(h, p)
       /\ c[13] = h

\* C1: every visited (host, protocol) pair with a non-web port has exactly one
\* command, with exactly its non-web ports after -p, -sT for tcp and -sU for any
\* other protocol, the -oA prefix <output dir>/nmap.{host}-{protocol} and the host
\* last; a pair whose ports are all web ports has none; no other command exists.
C1_OneCommandPerNonWebPair ==
    /\ \A h \in DOMAIN ip_dict : \A p \in DOMAIN ip_dict[h] :
        IF Visited(h, p) /\ ip_dict[h][p] \ web_ports # {}
        THEN /\ Cardinality(CommandsOf(h, p)) = 1
             /\ \A i \in CommandsOf(h, p) : CommandShape(commands[i], h, p)
        ELSE CommandsOf(h, p) = {}
    /\ \A i \in DOMAIN commands :
        \E h \in DOMAIN ip_dict : \E p \in DOMAIN ip_dict[h] : i \in CommandsOf(h, p)

\* the loops are over: a pair of web ports only has no command and a pair of
\* an unrecognised protocol has one with -sU
C1_Witness ==
    /\ pc = "pool"
    /\ \E h \in DOMAIN ip_dict : \E p \in DOMAIN ip_dict[h] :
        ip_dict[h][p] \ web_ports = {} /\ CommandsOf(h, p) = {}
    /\ \E h \in DOMAIN ip_dict :
        s_sctp \in DOMAIN ip_dict[h] /\ \E i \in CommandsOf(h, s_sctp) : commands[i][3] = <<"-", "s", "U">>

\* C2: for a non-negative integer --threads the run never ends otherwise than by
\* reporting success with every command finished.
C2_NonNegativeThreadsSucceed ==
    (threads.kind = "int" /\ threads.val >= 0 /\ Terminated)
        => (pc = "done" /\ AllFinished)

\* C3: with --threads N >= 1 at most N commands run at any instant.
C3_AtMostNRunning ==
    (threads.kind = "int" /\ threads.val >= 1) => Cardinality(Running) <= threads.val

\* N commands run while another one waits in the queue
C3_Witness ==
    /\ threads.kind = "int"
    /\ threads.val >= 1
    /\ Cardinality(Running) = threads.val
    /\ \E i \in DOMAIN status : status[i] = "queued"

\* C4: a --threads value that is no integer ends the run with an error logged,
\* no command started and the output directory not created.
C4_InvalidThreadsLoggedAndAborted ==
    (threads.kind \in {"text", "none"} /\ Terminated)
        => (pc = "returned" /\ logged /\ Started = {} /\ ~nmapDirExists)

\* abs(int(self.threads)) has been assigned
Converted == pc \notin {"convert", "returned"} /\ threads.kind = "int"

SomeFailed == \E i \in DOMAIN status : status[i] \in {"nonzero", "exception"}

\* C5: once a command has failed (non-zero exit, or subprocess.run raising) the
\* run neither raises nor logs, and it goes on to report success with every
\* command finished.
C5_FailuresIgnored ==
    /\ [](SomeFailed => (pc # "raised" /\ ~logged))
    /\ [](pc = "done" => AllFinished)
    /\ (SomeFailed ~> (pc = "done" /\ AllFinished))

\* success reported with one command that exited non-zero, one that raised
C5_Witness ==
    /\ pc = "done"
    /\ \E i \in DOMAIN status : status[i] = "nonzero"
    /\ \E i \in DOMAIN status : status[i] = "exception"

\* C10: once --threads has converted, the output directory exists from the end
\* of the build loops on; it is not created before every pair is visited, and no
\* command is queued or started while it does not exist.
C10_DirectoryBeforeDispatch ==
    /\ (Converted /\ pc # "build") => nmapDirExists
    /\ nmapDirExists => (todo = {} /\ ptodo = {} /\ Converted)
    /\ ~nmapDirExists => \A i \in DOMAIN status : status[i] = "new"

\* the directory exists while a command waits, one runs and none has finished
C10_Witness ==
    /\ nmapDirExists
    /\ \E i \in DOMAIN status : status[i] = "queued"
    /\ \E i \in DOMAIN status : status[i] = "running"
    /\ \A i \in DOMAIN status : status[i] \notin Finished

\* entries whose loop iteration is over
Processed ==
    {e \in DOMAIN captured : ~(ssPc \in {"mkdir", "write"} /\ e = ssEntry)}

\* C6: for every processed entry the result file exists iff its stderr was
\* non-empty, and then holds exactly that stderr.
C6_FileIffStderr ==
    \A e \in Processed :
        /\ (ResultName(e) \in DOMAIN ssFiles) <=> (captured[e] # <<>>)
        /\ captured[e] # <<>> => ssFiles[ResultName(e)] = captured[e]

\* the name the claim gives the result of nmap.{h}-{p}.xml
ExpectedResultName(h, p) ==
    <<"s", "e", "a", "r", "c", "h", "s", "p", "l", "o", "i", "t", ".">> \o h \o <<"-">> \o p
        \o <<".", "t", "x", "t">>

\* C7: a processed entry nmap.H-P.xml with stderr has its result in
\* searchsploit.H-P.txt.
C7_HostRecovered ==
    \A h \in SsHosts : \A p \in SsProtocols :
        (XmlName(h, p) \in Processed /\ captured[XmlName(h, p)] # <<>>)
            => ExpectedResultName(h, p) \in DOMAIN ssFiles

\* C8: two distinct entries never share a result name.
C8_NoCollision ==
    \A e1 \in DOMAIN captured : \A e2 \in DOMAIN captured :
        e1 # e2 => ResultName(e1) # ResultName(e2)

\* C9: the destination directory exists iff some entry with non-empty stderr
\* has passed the mkdir of its iteration.
C9_LazyDirectory ==
    ssDirExists <=>
        \E e \in DOMAIN captured : captured[e] # <<>> /\ ~(ssPc = "mkdir" /\ e = ssEntry)

\* the run has returned over at least two entries, all with empty stderr, and
\* the directory does not exist
C9_Witness ==
    /\ ssPc = "done"
    /\ Cardinality(DOMAIN captured) >= 2
    /\ \A e \in DOMAIN captured : captured[e] = <<>>
    /\ ~ssDirExists

====
